---- MODULE Spec2Model ----
(***************************************************************************)
(* The command/response bridge of the Cinema 4D MCP repository:            *)
(*   host side   c4d_plugin.py  Cinema4DMCPServer (listener, connection    *)
(*               handler, dispatcher, a few catalog handlers)              *)
(*   client side cinema4d_mcp/server.py  Cinema4DConnection and            *)
(*               get_cinema4d_connection                                   *)
(* Two specifications share the host actions:                              *)
(*   Spec      the client code talking to the host code                    *)
(*   SpecHost  the host code driven by arbitrary peers that may write any  *)
(*             document                                                    *)
(***************************************************************************)
EXTENDS Integers, Sequences, FiniteSets, TLC

\* ------------------------------------------------------------------ bounds
\* documents the client writes in one run (Commands, liveness pings included)
MaxCmds == 2
\* connections the client opens in one run
MaxConns == 2
\* documents arbitrary peers write in one run
MaxRaw == 2
\* connections arbitrary peers open in one run
MaxPeers == 1
\* start() calls in one run
MaxStarts == 2
\* clicks on the dialog's Start button in one run
MaxClicks == 3
\* times the user of the host application changes the active document
MaxSwitches == 1
\* add_message calls in one run
MaxMsgs == 4
\* get_chat_history is called with limits from -MaxLimit to MaxLimit
MaxLimit == 3
\* ChatManager(max_history): 100 unless given; a small store here
max_history == 3

VARIABLES
    \* ---- host: Cinema4DMCPServer fields
    running,        \* self.running
    socket,         \* self.socket: 0 is None, else the id of the listening socket
    server_thread,  \* self.server_thread: 0 is None, else the accept thread's id
    doc,            \* self.doc: "None" or a document
    \* ---- host: threads and the application
    loops,          \* accept-loop threads (_server_loop) that are alive
    starts,         \* start() calls so far
    threads,        \* accept threads started so far
    switches,       \* changes of the active document so far
    activeDoc,      \* documents.GetActiveDocument()
    objects,        \* objects inserted, per document
    materials,      \* materials inserted, per document
    \* ---- the connections: both ends, both byte streams, the handler thread
    conns,
    nextId,         \* documents written so far
    \* ---- client: module global and Cinema4DConnection
    c4d_connection, \* _c4d_connection is not None
    sock,           \* Cinema4DConnection.sock: 0 is None, else the connection id
    cpc,            \* where the client's current call stands
    phase,          \* which send_command runs: "ping" (acquire) or "cmd" (caller)
    call,           \* the caller's Command, and what this call did so far
    chunks,         \* receive_full_response: chunks
    last,           \* outcome of the last finished call
    \* ---- client: the ChatManager (chat_manager.py)
    history,        \* ChatManager.history
    added,          \* add_message calls so far
    shown,          \* what the last get_chat_history gave
    \* ---- host: the plugin's dialog (Cinema4DMCPDialog) and _server_instance
    dialog

hostVars == <<running, socket, server_thread, doc, loops, starts, threads,
              switches, activeDoc, objects, materials>>
chatVars == <<history, added, shown>>
clientVars == <<c4d_connection, sock, cpc, phase, call, chunks, last, chatVars>>
vars == <<hostVars, conns, nextId, clientVars, dialog>>

\* ---------------------------------------------------------------- documents
Docs == {"docA", "docB"}

\* Parameter names that occur in the modelled Commands
Keys == {"object_type", "name", "include_hierarchy", "bad"}

\* params of a Command document: a mapping with keys, or not a mapping at all
Params(mapping, keys, otype) ==
    [mapping |-> mapping, keys |-> keys, object_type |-> otype]

NoParams == Params(TRUE, {}, "")

\* A Command document as json.loads returns it.  shape "list" is a document
\* that decodes but is not a mapping; type "None" is a missing "type" key.
\* text is what the bytes of the document are: "ascii" (what json.dumps
\* writes), "utf8" (a document with a multi-byte character at the place where
\* its pieces meet), "malformed" (UTF-8 text that is no JSON document and no
\* beginning of one) or "invalid" (bytes that are not UTF-8).
Command(id, shape, type, params) ==
    [id |-> id, shape |-> shape, type |-> type, params |-> params,
     text |-> "ascii"]

\* A Response document.  for is the id of the Command it answers (not on the
\* wire: it is what the claims about pairing are stated with).
Response(status, body, for) == [status |-> status, body |-> body, for |-> for]

\* Pieces per encoded document: a document arrives in 1..NPieces reads
NPieces == 2

\* json.dumps(...).encode('utf-8'): the bytes of one document, as NPieces pieces
Encode(m) == [k \in 1..NPieces |-> [m |-> m, k |-> k]]

\* a decoder that takes any beginning of a document for the document
Decodes_first_piece(buf) == Len(buf) >= 1

\* the bytes of m are a JSON document (a Response always is: json.dumps wrote it)
WellFormed(m) == "text" \in DOMAIN m => m.text \in {"ascii", "utf8"}

\* json.loads(buffer.decode('utf-8')) succeeds: the buffer is exactly one document
Decodes(buf) == Len(buf) = NPieces /\ buf = Encode(buf[1].m) /\ WellFormed(buf[1].m)

\* the buffer is UTF-8 as far as it goes and ends inside a multi-byte
\* character: a chunk boundary fell there
SplitChar(buf) ==
    /\ buf # <<>>
    /\ \A i \in 1..Len(buf) : buf[i].m.text # "invalid"
    /\ buf[Len(buf)].m.text = "utf8"
    /\ buf[Len(buf)].k < NPieces

\* buffer.decode('utf-8') succeeds: every byte is UTF-8 and the buffer does not
\* end inside a multi-byte character
Utf8Decodes(buf) ==
    /\ \A i \in 1..Len(buf) : buf[i].m.text # "invalid"
    /\ buf # <<>> => ~(buf[Len(buf)].m.text = "utf8" /\ buf[Len(buf)].k < NPieces)

Decoded(buf) == buf[1].m

\* "no Command" and "no Response" (a handler that holds none)
NoCmd == Command(0, "map", "None", NoParams)
NoResp == Response("none", <<>>, 0)

\* ------------------------------------------------ dispatcher (execute_command)
\* handlers = {...}: the names of the dispatch table that the model carries
Handlers == {"ping", "get_scene_info", "create_object", "create_material"}

\* Keyword parameters each handler's signature requires / accepts
Required(name) ==
    CASE name = "create_object" -> {"object_type", "name"}
      [] name = "create_material" -> {"name"}
      [] OTHER -> {}

Allowed(name) ==
    CASE name = "create_object" -> {"object_type", "name"}
      [] name = "create_material" -> {"name"}
      [] name = "get_scene_info" -> {"include_hierarchy"}
      [] OTHER -> {}

\* handler(**params) binds: params is a mapping whose keys fit the signature
Binds(name, params) ==
    /\ params.mapping
    /\ Required(name) \subseteq params.keys
    /\ params.keys \subseteq Allowed(name)

\* str.lower() on the object types the model carries
Lower(s) == IF s = "CUBE" THEN "cube" ELSE s

\* type_map's keys in create_object
type_map == {"cube", "sphere", "cylinder", "cone", "plane", "null", "camera", "light"}

\* ping() returning another marker
ping_other_marker == <<"status", "ok">>

\* ping(): the fixed marker
ping == <<"status", "alive">>

\* create_object's return value
create_object_result(params) ==
    IF Lower(params.object_type) \notin type_map
    THEN <<"error", "Unknown object type: ", params.object_type>>
    ELSE <<"name", "X", "type", params.object_type, "success">>

\* create_object that inserts before it looks the type up
create_object_inserts_first(params) == TRUE

\* create_object inserts an object (self.doc.InsertObject) iff the type is known
create_object_inserts(params) == Lower(params.object_type) \in type_map

\* handlers[cmd_type] in place of handlers.get: the KeyError's text
UnknownCommand_KeyError(type) == <<"'", type, "'">>

\* the Failure of an unknown name
UnknownCommand(type) == <<"Unknown command type: ", type>>

\* str(e) of the exceptions execute_command catches
NotAMapping == <<"'list' object has no attribute 'get'">>
\* a Failure that drops the exception's text
BindError_generic(type) == <<"Internal error">>

BindError(type) == <<"TypeError: ", type, "() argument mismatch">>

\* a handler result json.dumps cannot encode
Unencodable == <<"<not JSON serializable>">>

\* -------------------------------------------------------------- connections
\* One connection: h is where its handler thread stands ("queued": not yet
\* accepted; "closed": the host's end is closed and the thread has ended), cend
\* the peer's end, in/out the bytes under way to/from the host, buf, cmd and
\* resp the handler's locals.  Kept for the claims only: got (ids of the
\* Commands decoded), answered (ids whose Response was written), wrote (the
\* Responses written), sendFailed, why (what ended the thread), docSet (the
\* document the dispatch of the Command in hand assigned to self.doc) and busy
\* (another handler thread was alive when this connection was accepted), gen
\* (the number of accept threads started when this connection was accepted),
\* split (the thread ended on a buffer that ends inside a multi-byte character).
NewConn ==
    [h |-> "queued", cend |-> "open", in |-> <<>>, buf |-> <<>>,
     cmd |-> NoCmd, resp |-> NoResp, out |-> <<>>,
     got |-> <<>>, answered |-> <<>>, wrote |-> <<>>, sendFailed |-> FALSE,
     why |-> "", docSet |-> "None", busy |-> FALSE, gen |-> 0,
     split |-> FALSE]

ConnIds == 1..Len(conns)

\* the finally clause of _handle_client: client.close(), the thread ends.
\* why: "eof" (recv returned no data), "stopped" (self.running was false),
\* "error" (an exception left the loop), "reset" (listener closed first)
HClose(c, why) ==
    [conns EXCEPT ![c].h = "closed", ![c].in = <<>>, ![c].buf = <<>>, ![c].why = why]

\* ------------------------------------------------------------------ listener
\* start() without its `if self.running: return`: it binds whenever called
\* (a second bind of the port may succeed or fail)
start_unguarded ==
    /\ starts < MaxStarts
    /\ starts' = starts + 1
    /\ \E bound \in BOOLEAN :
         IF bound
         THEN /\ running' = TRUE
              /\ socket' = starts + 1
              /\ server_thread' = threads + 1
              /\ loops' = loops \cup {threads + 1}
              /\ threads' = threads + 1
         ELSE /\ running' = FALSE
              /\ socket' = 0
              /\ server_thread' = 0
              /\ UNCHANGED <<loops, threads>>
    /\ UNCHANGED <<doc, switches, activeDoc, objects, materials, conns, nextId,
                   clientVars, dialog>>

\* start() whose except branch does not call stop(): the flag stays set and
\* the unbound socket stays referenced
start_no_cleanup ==
    /\ starts < MaxStarts
    /\ starts' = starts + 1
    /\ IF running
       THEN UNCHANGED <<running, socket, server_thread, loops, threads>>
       ELSE \E bound \in BOOLEAN :
              IF bound
              THEN /\ running' = TRUE
                   /\ socket' = starts + 1
                   /\ server_thread' = threads + 1
                   /\ loops' = loops \cup {threads + 1}
                   /\ threads' = threads + 1
              ELSE /\ running' = TRUE
                   /\ socket' = starts + 1
                   /\ server_thread' = 0
                   /\ UNCHANGED <<loops, threads>>
    /\ UNCHANGED <<doc, switches, activeDoc, objects, materials, conns, nextId,
                   clientVars, dialog>>

\* start(): no-op when running; else bind, listen and start the accept thread;
\* when bind fails (port in use) the except branch calls stop()
start ==
    /\ starts < MaxStarts
    /\ starts' = starts + 1
    /\ IF running
       THEN UNCHANGED <<running, socket, server_thread, loops, threads>>
       ELSE \E bound \in BOOLEAN :
              IF bound
              THEN /\ running' = TRUE
                   /\ socket' = starts + 1
                   /\ server_thread' = threads + 1
                   /\ loops' = loops \cup {threads + 1}
                   /\ threads' = threads + 1
              ELSE /\ running' = FALSE
                   /\ socket' = 0
                   /\ server_thread' = 0
                   /\ UNCHANGED <<loops, threads>>
    /\ UNCHANGED <<doc, switches, activeDoc, objects, materials, conns, nextId,
                   clientVars, dialog>>

\* stop() that leaves self.server_thread set
stop_keeps_thread ==
    /\ running' = FALSE
    /\ socket' = 0
    /\ conns' = [c \in ConnIds |->
                   IF conns[c].h = "queued" THEN HClose(c, "reset")[c] ELSE conns[c]]
    /\ UNCHANGED <<server_thread, doc, loops, starts, threads, switches, activeDoc,
                   objects, materials, nextId, clientVars, dialog>>

\* stop(): clear the flag, close the listening socket (connections still in
\* its backlog are reset), join the accept thread for at most 1 s
stop ==
    /\ running' = FALSE
    /\ socket' = 0
    /\ server_thread' = 0
    /\ conns' = [c \in ConnIds |->
                   IF conns[c].h = "queued" THEN HClose(c, "reset")[c] ELSE conns[c]]
    /\ UNCHANGED <<doc, loops, starts, threads, switches, activeDoc, objects,
                   materials, nextId, clientVars, dialog>>

\* a listener that accepts the next connection only when no handler is alive
server_loop_accept_one_at_a_time(t) ==
    /\ t \in loops
    /\ running
    /\ socket # 0
    /\ \A d \in ConnIds : conns[d].h \in {"queued", "closed"}
    /\ \E c \in ConnIds :
         /\ conns[c].h = "queued"
         /\ \A d \in ConnIds : conns[d].h = "queued" => c <= d
         /\ conns' = [conns EXCEPT ![c].h = "head"]
    /\ UNCHANGED <<hostVars, nextId, clientVars, dialog>>

\* _server_loop, one iteration that accepts: spawn _handle_client(client)
server_loop_accept(t) ==
    /\ t \in loops
    /\ running
    /\ socket # 0
    /\ \E c \in ConnIds :
         /\ conns[c].h = "queued"
         /\ \A d \in ConnIds : conns[d].h = "queued" => c <= d
         /\ conns' = [conns EXCEPT ![c].h = "head",
                                   ![c].gen = threads,
                                   ![c].busy = \E d \in ConnIds :
                                       conns[d].h \notin {"queued", "closed"}]
    /\ UNCHANGED <<hostVars, nextId, clientVars, dialog>>

\* an accept loop that never looks at self.running again
server_loop_exit_never(t) ==
    /\ FALSE
    /\ UNCHANGED vars

\* _server_loop: the while condition is false, the thread ends
server_loop_exit(t) ==
    /\ t \in loops
    /\ ~running
    /\ loops' = loops \ {t}
    /\ UNCHANGED <<running, socket, server_thread, doc, starts, threads,
                   switches, activeDoc, objects, materials, conns, nextId,
                   clientVars, dialog>>

\* ------------------------------------------------------- connection handler
\* a handler whose loop does not look at the running flag
handle_client_head_ignores_stop(c) ==
    /\ conns[c].h = "head"
    /\ conns' = [conns EXCEPT ![c].h = "recv"]
    /\ UNCHANGED <<hostVars, nextId, clientVars, dialog>>

\* _handle_client: `while self.running:`
handle_client_head(c) ==
    /\ conns[c].h = "head"
    /\ conns' = IF running THEN [conns EXCEPT ![c].h = "recv"]
                           ELSE HClose(c, "stopped")
    /\ UNCHANGED <<hostVars, nextId, clientVars, dialog>>

\* a handler that closes the connection when its buffer is as long as a
\* document and still does not decode
handle_client_recv_rejects(c) ==
    /\ conns[c].h = "recv"
    /\ \/ /\ conns[c].in = <<>>
          /\ conns[c].cend = "closed"
          /\ conns' = HClose(c, "eof")
       \/ \E n \in 1..Len(conns[c].in) :
            LET buffer == conns[c].buf \o SubSeq(conns[c].in, 1, n)
                rest == SubSeq(conns[c].in, n + 1, Len(conns[c].in))
            IN IF ~Utf8Decodes(buffer) \/ (~Decodes(buffer) /\ Len(buffer) >= NPieces)
               THEN conns' = HClose(c, "error")
               ELSE IF Decodes(buffer)
               THEN conns' = [conns EXCEPT ![c].in = rest, ![c].buf = <<>>,
                                           ![c].cmd = Decoded(buffer),
                                           ![c].got = Append(@, Decoded(buffer).id),
                                           ![c].h = "dispatch"]
               ELSE conns' = [conns EXCEPT ![c].in = rest, ![c].buf = buffer,
                                           ![c].h = "head"]
    /\ UNCHANGED <<hostVars, nextId, clientVars, dialog>>

\* a handler that reads the next Command while the Response of the current
\* one is still to be written
handle_client_recv_pipelined(c) ==
    /\ conns[c].h \in {"recv", "send"}
    /\ \E n \in 1..Len(conns[c].in) :
         LET buffer == conns[c].buf \o SubSeq(conns[c].in, 1, n)
             rest == SubSeq(conns[c].in, n + 1, Len(conns[c].in))
         IN IF Decodes(buffer)
            THEN conns' = [conns EXCEPT ![c].in = rest, ![c].buf = <<>>,
                                        ![c].cmd = Decoded(buffer),
                                        ![c].got = Append(@, Decoded(buffer).id),
                                        ![c].h = "dispatch"]
            ELSE conns' = [conns EXCEPT ![c].in = rest, ![c].buf = buffer,
                                        ![c].h = "head"]
    /\ UNCHANGED <<hostVars, nextId, clientVars, dialog>>

\* a handler that takes a buffer that is not yet UTF-8 for an incomplete one
handle_client_recv_waits_for_utf8(c) ==
    /\ conns[c].h = "recv"
    /\ \/ /\ conns[c].in = <<>>
          /\ conns[c].cend = "closed"
          /\ conns' = HClose(c, "eof")
       \/ \E n \in 1..Len(conns[c].in) :
            LET buffer == conns[c].buf \o SubSeq(conns[c].in, 1, n)
                rest == SubSeq(conns[c].in, n + 1, Len(conns[c].in))
            IN IF Decodes(buffer)
               THEN conns' = [conns EXCEPT ![c].in = rest, ![c].buf = <<>>,
                                           ![c].cmd = Decoded(buffer),
                                           ![c].got = Append(@, Decoded(buffer).id),
                                           ![c].h = "dispatch"]
               ELSE conns' = [conns EXCEPT ![c].in = rest, ![c].buf = buffer,
                                           ![c].h = "head"]
    /\ UNCHANGED <<hostVars, nextId, clientVars, dialog>>

\* _handle_client: data = client.recv(8192); EOF ends the thread; else the
\* chunk is appended and the whole buffer is tried as one document.  A buffer
\* that is not UTF-8 raises UnicodeDecodeError, which `except
\* json.JSONDecodeError` does not catch: `except Exception` ends the thread.
handle_client_recv(c) ==
    /\ conns[c].h = "recv"
    /\ \/ /\ conns[c].in = <<>>
          /\ conns[c].cend = "closed"
          /\ conns' = HClose(c, "eof")
       \/ \E n \in 1..Len(conns[c].in) :
            LET buffer == conns[c].buf \o SubSeq(conns[c].in, 1, n)
                rest == SubSeq(conns[c].in, n + 1, Len(conns[c].in))
            IN IF ~Utf8Decodes(buffer)
               THEN conns' = [HClose(c, "error") EXCEPT ![c].split = SplitChar(buffer)]
               ELSE IF Decodes(buffer)
               THEN conns' = [conns EXCEPT ![c].in = rest, ![c].buf = <<>>,
                                           ![c].cmd = Decoded(buffer),
                                           ![c].got = Append(@, Decoded(buffer).id),
                                           ![c].h = "dispatch"]
               ELSE conns' = [conns EXCEPT ![c].in = rest, ![c].buf = buffer,
                                           ![c].h = "head"]
    /\ UNCHANGED <<hostVars, nextId, clientVars, dialog>>

\* a dispatcher that waits while a handler of another connection is running
handle_client_dispatch_locked(c) ==
    /\ conns[c].h = "dispatch"
    /\ \A d \in ConnIds \ {c} : conns[d].h \notin {"handler", "send"}
    /\ doc' = activeDoc
    /\ conns' = [conns EXCEPT ![c].h = "handler", ![c].docSet = activeDoc]
    /\ UNCHANGED <<running, socket, server_thread, loops, starts, threads,
                   switches, activeDoc, objects, materials, nextId, clientVars, dialog>>

\* execute_command up to the handler call: command.get (a document that is
\* not a mapping raises, caught by the outer except), self.doc =
\* GetActiveDocument(), handlers.get(cmd_type), the binding of **params
handle_client_dispatch(c) ==
    /\ conns[c].h = "dispatch"
    /\ LET cmd == conns[c].cmd
           fail(msg) == [conns EXCEPT ![c].resp = Response("error", msg, cmd.id),
                                      ![c].h = "send"]
       IN IF cmd.shape # "map"
          THEN /\ conns' = fail(NotAMapping)
               /\ UNCHANGED doc
          ELSE /\ doc' = activeDoc
               /\ conns' = IF cmd.type \notin Handlers
                              THEN fail(UnknownCommand(cmd.type))
                           ELSE IF ~Binds(cmd.type, cmd.params)
                              THEN fail(BindError(cmd.type))
                           ELSE [conns EXCEPT ![c].h = "handler",
                                              ![c].docSet = activeDoc]
    /\ UNCHANGED <<running, socket, server_thread, loops, starts, threads,
                   switches, activeDoc, objects, materials, nextId, clientVars, dialog>>

\* execute_command: result = handler(**params), wrapped as Success.  The
\* handler runs against self.doc as it is now.  get_scene_info assembles its
\* result from values of the host API: the result may be one that json.dumps
\* cannot encode.
handle_client_handler(c) ==
    /\ conns[c].h = "handler"
    /\ LET cmd == conns[c].cmd
           ok(body) == [conns EXCEPT ![c].resp = Response("success", body, cmd.id),
                                     ![c].h = "send"]
       IN CASE cmd.type = "ping" ->
                 /\ conns' = ok(ping)
                 /\ UNCHANGED <<objects, materials>>
            [] cmd.type = "get_scene_info" ->
                 /\ \E body \in {<<"scene", doc>>, Unencodable} : conns' = ok(body)
                 /\ UNCHANGED <<objects, materials>>
            [] cmd.type = "create_object" ->
                 /\ conns' = ok(create_object_result(cmd.params))
                 /\ objects' = IF create_object_inserts(cmd.params)
                               THEN [objects EXCEPT ![doc] = @ + 1]
                               ELSE objects
                 /\ UNCHANGED materials
            [] cmd.type = "create_material" ->
                 /\ conns' = ok(<<"name", "M", "success">>)
                 /\ materials' = [materials EXCEPT ![doc] = @ + 1]
                 /\ UNCHANGED objects
    /\ UNCHANGED <<running, socket, server_thread, doc, loops, starts, threads,
                   switches, activeDoc, nextId, clientVars, dialog>>

\* _handle_client: response_json = json.dumps(response) (an exception here
\* leaves the loop through `except Exception: break` and closes), then
\* client.sendall in its own try (a failure is printed and the loop goes on)
handle_client_send(c) ==
    /\ conns[c].h = "send"
    /\ LET resp == conns[c].resp
       IN IF resp.body = Unencodable
          THEN conns' = HClose(c, "error")
          ELSE IF conns[c].cend = "open"
          THEN conns' = [conns EXCEPT ![c].out = @ \o Encode(resp),
                                      ![c].answered = Append(@, resp.for),
                                      ![c].wrote = Append(@, resp),
                                      ![c].cmd = NoCmd, ![c].resp = NoResp,
                                      ![c].docSet = "None",
                                      ![c].h = "head"]
          ELSE conns' = [conns EXCEPT ![c].sendFailed = TRUE,
                                      ![c].cmd = NoCmd, ![c].resp = NoResp,
                                      ![c].docSet = "None",
                                      ![c].h = "head"]
    /\ UNCHANGED <<hostVars, nextId, clientVars, dialog>>

\* the user of the host application makes another document the active one
SwitchDocument ==
    /\ switches < MaxSwitches
    /\ switches' = switches + 1
    /\ \E d \in Docs \ {activeDoc} : activeDoc' = d
    /\ UNCHANGED <<running, socket, server_thread, doc, loops, starts, threads,
                   objects, materials, conns, nextId, clientVars, dialog>>

\* ---------------------------------------------------- arbitrary peers (SpecHost)
\* The documents a peer may write (id filled in when written)
RawDocs ==
    {Command(0, "map", "ping", NoParams),
     Command(0, "map", "ping", Params(TRUE, {"bad"}, "")),
     Command(0, "map", "ping", Params(FALSE, {}, "")),
     Command(0, "map", "get_scene_info", NoParams),
     Command(0, "map", "create_material", Params(TRUE, {"name"}, "")),
     Command(0, "map", "create_object", Params(TRUE, {"name"}, "")),
     Command(0, "map", "nosuch", NoParams),
     Command(0, "map", "None", NoParams),
     Command(0, "list", "None", NoParams)}
    \cup {Command(0, "map", "create_object", Params(TRUE, {"object_type", "name"}, t)) :
            t \in {"cube", "CUBE", "bogus"}}
    \cup {[Command(0, "map", "ping", NoParams) EXCEPT !.text = t] :
            t \in {"utf8", "malformed", "invalid"}}

PeerConnect ==
    /\ socket # 0
    /\ Len(conns) < MaxPeers
    /\ conns' = Append(conns, NewConn)
    /\ UNCHANGED <<hostVars, nextId, clientVars, dialog>>

PeerSend(c) ==
    /\ conns[c].cend = "open"
    /\ conns[c].h # "closed"
    /\ nextId < MaxRaw
    /\ nextId' = nextId + 1
    /\ \E d \in RawDocs :
         conns' = [conns EXCEPT ![c].in = @ \o Encode([d EXCEPT !.id = nextId + 1])]
    /\ UNCHANGED <<hostVars, clientVars, dialog>>

PeerClose(c) ==
    /\ conns[c].cend = "open"
    /\ conns' = [conns EXCEPT ![c].cend = "closed"]
    /\ UNCHANGED <<hostVars, nextId, clientVars, dialog>>

\* ------------------------------------------ client (cinema4d_mcp/server.py)
\* params=None: send_command called without arguments, as
\* send_command("ping") and send_command("get_chat_status") are
PyNone == Params(FALSE, {}, "None")

\* send_command that puts params into the document as it got it
params_as_passed(params) == params

\* send_command, line 113: "params": params or {}
params_or_empty(params) ==
    IF params = PyNone \/ (params.mapping /\ params.keys = {}) THEN NoParams ELSE params

\* The caller's Commands, send_command(command_type, params): the one of the
\* tool get_scene_info, and a command_type the host does not know, without
\* arguments
ClientCmds ==
    {[type |-> "get_scene_info", params |-> Params(TRUE, {"include_hierarchy"}, "")],
     [type |-> "nosuch", params |-> PyNone]}

\* One tool call: type and params of the caller's Command; id of the document
\* the running send_command wrote (0: none yet); connects: connect attempts of
\* this call; writes: sendall calls of the running send_command; reads: the
\* recv calls of its receive_full_response that returned bytes; stale: the
\* cached socket if the host had closed it when the call began; lsock: the
\* listening socket when the call began
NoCall ==
    [type |-> "None", params |-> NoParams, id |-> 0, connects |-> 0, writes |-> 0,
     reads |-> 0, stale |-> 0, lsock |-> 0]

\* What the last send_command (or connect) gave: kind "ok" with the result,
\* or "error" with the text raised; for: the Command the decoded Response
\* answers (0: no Response was decoded); id: the Command this send_command
\* wrote; conn: the socket it ran on; data: the bytes receive_full_response
\* returned and resp the Response decoded from them (none: it raised)
NoOutcome ==
    [kind |-> "none", body |-> <<>>, for |-> 0, id |-> 0, conn |-> 0,
     resp |-> NoResp, data |-> <<>>]

\* send_command that takes every decoded Response for a Success
Interpret_ignores_status(response) == [raise |-> FALSE, value |-> response.body]

\* send_command, lines 130-134: a Response with status "error" is raised as
\* Exception(message), any other gives response.get("result", {})
Interpret(response) ==
    IF response.status = "error"
    THEN [raise |-> TRUE, value |-> response.body]
    ELSE [raise |-> FALSE, value |-> response.body]

\* send_command whose generic `except Exception` clause keeps the socket
SockAfter_only_transport(exc, s) ==
    IF exc \in {"socket.timeout", "ConnectionError"} THEN 0 ELSE s

\* send_command whose clause for a lost connection keeps the socket
SockAfter_keeps_lost(exc, s) ==
    IF exc \in {"ConnectionError", "json.JSONDecodeError"} THEN s ELSE 0

\* self.sock after send_command's except clause for an exception of class exc
\* (lines 135-151): every clause but json.JSONDecodeError sets it to None
SockAfter(exc, s) == IF exc = "json.JSONDecodeError" THEN s ELSE 0

\* send_command that re-raises what it caught, unwrapped
Wrap_bare(exc, msg) == msg

\* the text send_command raises for an exception of class exc with text msg
Wrap(exc, msg) ==
    CASE exc = "socket.timeout" ->
           <<"Timeout waiting for Cinema 4D response - operation may be too complex">>
      [] exc = "ConnectionError" -> <<"Connection to Cinema 4D lost: ">> \o msg
      [] exc = "json.JSONDecodeError" -> <<"Invalid response from Cinema 4D: ">> \o msg
      [] OTHER -> <<"Communication error with Cinema 4D: ">> \o msg

\* connect() can succeed: the host listens
Listening == socket # 0

\* socket.socket(); connect((host, port)): a new connection in the backlog
Connected == Append(conns, NewConn)

\* get_cinema4d_connection, lines 194-206: a cached connection is pinged,
\* else one is created
get_cinema4d_connection ==
    IF c4d_connection
    THEN phase' = "ping" /\ cpc' = "sc_begin"
    ELSE phase' = "cmd" /\ cpc' = "create"

\* a call begins as every tool does (get_scene_info(ctx), lines 229-231):
\* c4d = get_cinema4d_connection(), then c4d.send_command(type, params)
tool_call ==
    /\ cpc = "idle"
    /\ \E k \in ClientCmds :
         call' = [type |-> k.type, params |-> k.params, id |-> 0, connects |-> 0,
                  writes |-> 0, reads |-> 0,
                  stale |-> IF c4d_connection /\ sock # 0 /\ conns[sock].h = "closed"
                            THEN sock ELSE 0,
                  lsock |-> socket]
    /\ get_cinema4d_connection
    /\ UNCHANGED <<hostVars, conns, nextId, c4d_connection, sock, chunks, last>>
    /\ UNCHANGED <<chatVars, dialog>>

\* recv calls that have returned bytes, once data is what they gave together
Reads(data) == IF Len(data) > Len(chunks) THEN call.reads + 1 ELSE call.reads

\* send_command leaves with an exception of class exc raised inside its try
\* (data: the bytes receive_full_response had returned, if it had)
sc_raise(exc, msg, data) ==
    /\ sock' = SockAfter(exc, sock)
    /\ last' = [kind |-> "error", body |-> Wrap(exc, msg),
                for |-> IF data = <<>> THEN 0 ELSE Decoded(data).for,
                id |-> call.id, conn |-> sock,
                resp |-> IF data = <<>> THEN NoResp ELSE Decoded(data),
                data |-> data]
    /\ cpc' = IF phase = "ping" THEN "ping_failed" ELSE "done"
    /\ chunks' = <<>>
    /\ call' = [call EXCEPT !.reads = Reads(data)]
    /\ UNCHANGED <<c4d_connection, phase>>

\* send_command returns the result of the Response decoded from data; after
\* the ping of get_cinema4d_connection the caller's send_command begins
sc_return(data) ==
    /\ last' = [kind |-> "ok", body |-> Interpret(Decoded(data)).value,
                for |-> Decoded(data).for,
                id |-> call.id, conn |-> sock,
                resp |-> Decoded(data), data |-> data]
    /\ cpc' = IF phase = "ping" THEN "sc_begin" ELSE "done"
    /\ phase' = "cmd"
    /\ call' = IF phase = "ping"
               THEN [call EXCEPT !.id = 0, !.writes = 0, !.reads = 0]
               ELSE [call EXCEPT !.reads = Reads(data)]
    /\ chunks' = <<>>
    /\ UNCHANGED <<c4d_connection, sock>>

\* a send_command that raises a decoded Failure and keeps its socket
sc_response_keeps_socket(data) ==
    IF Interpret(Decoded(data)).raise
    THEN /\ last' = [kind |-> "error",
                     body |-> Wrap("Exception", Interpret(Decoded(data)).value),
                     for |-> Decoded(data).for, id |-> call.id, conn |-> sock,
                     resp |-> Decoded(data), data |-> data]
         /\ cpc' = IF phase = "ping" THEN "ping_failed" ELSE "done"
         /\ chunks' = <<>>
         /\ call' = [call EXCEPT !.reads = Reads(data)]
         /\ UNCHANGED <<c4d_connection, phase, sock>>
    ELSE sc_return(data)

\* send_command, lines 124-134: receive_full_response returned data;
\* response = json.loads(data); a Failure is raised inside the try
sc_response(data) ==
    IF Interpret(Decoded(data)).raise
    THEN sc_raise("Exception", Interpret(Decoded(data)).value, data)
    ELSE sc_return(data)

\* send_command, line 108: `if not self.sock and not self.connect(): raise
\* ConnectionError(...)`, raised outside the try
send_command_begin ==
    /\ cpc = "sc_begin"
    /\ IF sock # 0
       THEN /\ cpc' = "sc_send"
            /\ UNCHANGED <<conns, sock, call, last>>
       ELSE IF Listening
       THEN /\ Len(conns) < MaxConns
            /\ conns' = Connected
            /\ sock' = Len(conns) + 1
            /\ call' = [call EXCEPT !.connects = @ + 1]
            /\ cpc' = "sc_send"
            /\ UNCHANGED last
       ELSE /\ call' = [call EXCEPT !.connects = @ + 1]
            /\ last' = [NoOutcome EXCEPT !.kind = "error",
                                         !.body = <<"Not connected to Cinema 4D">>]
            /\ cpc' = IF phase = "ping" THEN "ping_failed" ELSE "done"
            /\ UNCHANGED <<conns, sock>>
    /\ UNCHANGED <<hostVars, nextId, c4d_connection, phase, chunks>>
    /\ UNCHANGED <<chatVars, dialog>>

\* send_command: self.sock.sendall(json.dumps(command).encode('utf-8')).  On a
\* socket whose peer has closed, sendall raises (broken pipe, reset) or still
\* takes the bytes, which are lost.
send_command_send ==
    /\ cpc = "sc_send"
    /\ nextId < MaxCmds
    /\ LET type == IF phase = "ping" THEN "ping" ELSE call.type
           params == params_or_empty(IF phase = "ping" THEN PyNone ELSE call.params)
           command == Command(nextId + 1, "map", type, params)
           sent == /\ nextId' = nextId + 1
                   /\ call' = [call EXCEPT !.id = nextId + 1, !.writes = @ + 1,
                                            !.reads = 0]
                   /\ cpc' = "sc_recv"
                   /\ chunks' = <<>>
                   /\ UNCHANGED <<c4d_connection, sock, phase, last>>
       IN IF conns[sock].h # "closed"
          THEN /\ conns' = [conns EXCEPT ![sock].in = @ \o Encode(command)]
               /\ sent
          ELSE \/ /\ sc_raise("ConnectionError", <<"Broken pipe">>, <<>>)
                  /\ UNCHANGED <<conns, nextId>>
               \/ /\ UNCHANGED conns
                  /\ sent
    /\ UNCHANGED hostVars
    /\ UNCHANGED <<chatVars, dialog>>

\* a receive that returns whatever it has when the loop ends
receive_after_loop_partial ==
    IF chunks # <<>>
    THEN sc_response(chunks)
    ELSE sc_raise("Exception", <<"No data received">>, <<>>)

\* receive_full_response: what follows the loop (lines 95-104)
receive_after_loop ==
    IF chunks # <<>>
    THEN IF Decodes(chunks)
         THEN sc_response(chunks)
         ELSE sc_raise("Exception", <<"Incomplete JSON response received">>, <<>>)
    ELSE sc_raise("Exception", <<"No data received">>, <<>>)

\* receive_full_response, one sock.recv(buffer_size) of its loop: the chunk is
\* appended and the joined chunks are returned if they decode; the caller,
\* send_command, then reads the Response (sc_response).  recv returns
\* end-of-stream when the host has closed and nothing is left to read, and
\* times out when nothing arrives in time: the host has written nothing, or
\* what it wrote is still on its way.
receive_full_response ==
    /\ cpc = "sc_recv"
    /\ \/ \E n \in 1..Len(conns[sock].out) :
            LET data == chunks \o SubSeq(conns[sock].out, 1, n)
            IN /\ conns' = [conns EXCEPT ![sock].out =
                                SubSeq(@, n + 1, Len(@))]
               /\ IF ~Decodes(data)
                  THEN /\ chunks' = data
                       /\ call' = [call EXCEPT !.reads = Reads(data)]
                       /\ UNCHANGED <<c4d_connection, sock, cpc, phase, last>>
                  ELSE sc_response(data)
       \/ /\ conns[sock].out = <<>>
          /\ conns[sock].h = "closed"
          /\ UNCHANGED conns
          /\ \/ IF chunks = <<>>
                THEN sc_raise("Exception",
                              <<"Connection closed before receiving any data">>, <<>>)
                ELSE receive_after_loop
             \/ sc_raise("ConnectionError", <<"Connection reset by peer">>, <<>>)
       \/ /\ conns[sock].out = <<>> => conns[sock].h # "closed"
          /\ UNCHANGED conns
          /\ receive_after_loop
    /\ UNCHANGED <<hostVars, nextId>>
    /\ UNCHANGED <<chatVars, dialog>>

\* get_cinema4d_connection that lets the failure of its ping reach the caller
get_cinema4d_connection_reraises ==
    /\ cpc = "ping_failed"
    /\ cpc' = "done"
    /\ UNCHANGED <<hostVars, conns, nextId, c4d_connection, sock, phase, call,
                   chunks, last>>
    /\ UNCHANGED <<chatVars, dialog>>

\* get_cinema4d_connection, lines 198-204: the ping failed; disconnect()
\* closes the socket if one is held; the cached object is dropped
get_cinema4d_connection_except ==
    /\ cpc = "ping_failed"
    /\ conns' = IF sock # 0 THEN [conns EXCEPT ![sock].cend = "closed"] ELSE conns
    /\ sock' = 0
    /\ c4d_connection' = FALSE
    /\ phase' = "cmd"
    /\ cpc' = "create"
    /\ UNCHANGED <<hostVars, nextId, call, chunks, last>>
    /\ UNCHANGED <<chatVars, dialog>>

\* get_cinema4d_connection that keeps the object whose connect() failed
get_cinema4d_connection_create_keeps ==
    /\ cpc = "create"
    /\ call' = [call EXCEPT !.connects = @ + 1, !.id = 0, !.writes = 0, !.reads = 0]
    /\ c4d_connection' = TRUE
    /\ IF Listening
       THEN /\ Len(conns) < MaxConns
            /\ conns' = Connected
            /\ sock' = Len(conns) + 1
            /\ cpc' = "sc_begin"
            /\ UNCHANGED last
       ELSE /\ sock' = 0
            /\ last' = [NoOutcome EXCEPT !.kind = "error",
                          !.body = <<"Could not connect to Cinema 4D. Make sure the Cinema 4D plugin is running.">>]
            /\ cpc' = "done"
            /\ UNCHANGED conns
    /\ UNCHANGED <<hostVars, nextId, phase, chunks>>
    /\ UNCHANGED <<chatVars, dialog>>

\* get_cinema4d_connection, lines 206-214: a new Cinema4DConnection and its
\* connect(); on failure the global is reset and an exception raised
get_cinema4d_connection_create ==
    /\ cpc = "create"
    /\ call' = [call EXCEPT !.connects = @ + 1, !.id = 0, !.writes = 0, !.reads = 0]
    /\ IF Listening
       THEN /\ Len(conns) < MaxConns
            /\ conns' = Connected
            /\ sock' = Len(conns) + 1
            /\ c4d_connection' = TRUE
            /\ cpc' = "sc_begin"
            /\ UNCHANGED last
       ELSE /\ c4d_connection' = FALSE
            /\ sock' = 0
            /\ last' = [NoOutcome EXCEPT !.kind = "error",
                          !.body = <<"Could not connect to Cinema 4D. Make sure the Cinema 4D plugin is running.">>]
            /\ cpc' = "done"
            /\ UNCHANGED conns
    /\ UNCHANGED <<hostVars, nextId, phase, chunks>>
    /\ UNCHANGED <<chatVars, dialog>>

\* the tool returns its text to the caller; the exception it caught, the last
\* holder (through its traceback) of a socket send_command dropped, goes away
tool_return ==
    /\ cpc = "done"
    /\ cpc' = "idle"
    /\ call' = NoCall
    /\ last' = NoOutcome
    /\ conns' = [c \in ConnIds |->
                   IF c # sock THEN [conns[c] EXCEPT !.cend = "closed"] ELSE conns[c]]
    /\ UNCHANGED <<hostVars, nextId, c4d_connection, sock, phase, chunks>>
    /\ UNCHANGED <<chatVars, dialog>>

\* a socket object the client no longer references (`self.sock = None`
\* without close()) is finalized, which closes it
socket_finalized(c) ==
    /\ c # sock
    /\ conns[c].cend = "open"
    /\ conns' = [conns EXCEPT ![c].cend = "closed"]
    /\ UNCHANGED <<hostVars, nextId, clientVars, dialog>>

\* ------------------------------------------------ chat store (chat_manager.py)
\* seq[first:] of Python: a negative first counts from the end, and a first
\* beyond either end is clipped
PySliceFrom(seq, first) ==
    LET n == Len(seq)
        from == IF first < 0
                THEN (IF n + first < 0 THEN 0 ELSE n + first)
                ELSE (IF first > n THEN n ELSE first)
    IN SubSeq(seq, from + 1, n)

\* the roles send_chat_message adds messages with
Roles == {"user", "assistant"}

\* ChatMessage(role, content): content is told apart by a number
ChatMessage(role, content) == [role |-> role, content |-> content]

\* no get_chat_history call yet; else the limit it was called with, the
\* messages it gave, and the history it was called on
NotShown == [called |-> FALSE, limit |-> 0, messages |-> <<>>, of |-> <<>>]

\* an add_message that drops the newest messages when the list is full
add_message_keeps_oldest ==
    /\ added < MaxMsgs
    /\ added' = added + 1
    /\ \E role \in Roles :
         LET appended == Append(history, ChatMessage(role, added + 1))
         IN history' = IF Len(appended) > max_history
                       THEN SubSeq(appended, 1, max_history)
                       ELSE appended
    /\ UNCHANGED <<hostVars, conns, nextId, c4d_connection, sock, cpc, phase,
                   call, chunks, last, shown, dialog>>

\* ChatManager.add_message: append, then keep the last max_history
add_message ==
    /\ added < MaxMsgs
    /\ added' = added + 1
    /\ \E role \in Roles :
         LET appended == Append(history, ChatMessage(role, added + 1))
         IN history' = IF Len(appended) > max_history
                       THEN PySliceFrom(appended, 0 - max_history)
                       ELSE appended
    /\ UNCHANGED <<hostVars, conns, nextId, c4d_connection, sock, cpc, phase,
                   call, chunks, last, shown, dialog>>

\* ChatManager.reset, called by the tool clear_chat_history: clear_history()
\* empties the list (the context and the session id are not modelled; on an
\* empty list it changes nothing, so only the other case is a step)
reset ==
    /\ history # <<>>
    /\ history' = <<>>
    /\ UNCHANGED <<hostVars, conns, nextId, c4d_connection, sock, cpc, phase,
                   call, chunks, last, added, shown, dialog>>

\* ChatManager.get_messages(limit): `if limit: messages = messages[-limit:]`
get_messages(limit) ==
    IF limit # 0 THEN PySliceFrom(history, 0 - limit) ELSE history

\* the tool get_chat_history(limit): the messages it formats, in order (none:
\* "No chat history available.")
get_chat_history ==
    /\ \E limit \in (0 - MaxLimit)..MaxLimit :
         shown' = [called |-> TRUE, limit |-> limit,
                   messages |-> get_messages(limit), of |-> history]
    /\ UNCHANGED <<hostVars, conns, nextId, c4d_connection, sock, cpc, phase,
                   call, chunks, last, history, added, dialog>>

\* ------------------------------------------------ the dialog (Cinema4DMCPDialog)
\* what the user can have typed into the port field: int() accepts the first
\* two
PortTexts == {"9877", "9878", "x"}

\* The dialog after __init__ and CreateLayout, and the module global
\* _server_instance (instance: it is not None).  The host's fields (running,
\* socket, server_thread) are those of _server_instance; an instance that is
\* None has them as a new instance does.
NewDialog ==
    [server_running |-> FALSE, start_enabled |-> TRUE, stop_enabled |-> FALSE,
     status |-> <<"Status: Not connected">>, port |-> "9877", instance |-> FALSE]

\* the user edits the port field
EditPort ==
    /\ \E p \in PortTexts : p # dialog.port /\ dialog' = [dialog EXCEPT !.port = p]
    /\ UNCHANGED <<hostVars, conns, nextId, clientVars>>

\* what Command(ID_START_BTN) leaves in the dialog
Connected_shown ==
    [dialog EXCEPT !.server_running = TRUE, !.start_enabled = FALSE,
                   !.stop_enabled = TRUE, !.instance = TRUE,
                   !.status = <<"Status: Connected on port ", dialog.port>>]

\* Command(ID_START_BTN), lines 718-725: int() of the port field (a
\* ValueError leaves everything as it was), a new Cinema4DMCPServer, its
\* start() (lines 42-65: a failed bind ends in stop()), and the dialog as
\* connected
Command_start ==
    /\ dialog.start_enabled
    /\ starts < MaxClicks
    /\ IF dialog.port = "x"
       THEN UNCHANGED <<running, socket, server_thread, loops, starts, threads,
                        dialog>>
       ELSE /\ starts' = starts + 1
            /\ \E bound \in BOOLEAN :
                 IF bound
                 THEN /\ running' = TRUE
                      /\ socket' = starts + 1
                      /\ server_thread' = threads + 1
                      /\ loops' = loops \cup {threads + 1}
                      /\ threads' = threads + 1
                 ELSE /\ running' = FALSE
                      /\ socket' = 0
                      /\ server_thread' = 0
                      /\ UNCHANGED <<loops, threads>>
            /\ dialog' = Connected_shown
    /\ UNCHANGED <<doc, switches, activeDoc, objects, materials, conns, nextId,
                   clientVars>>

\* Command(ID_STOP_BTN), lines 727-734: stop() of the instance, if there is
\* one, which is then dropped; the dialog as not connected
Command_stop ==
    /\ dialog.stop_enabled
    /\ IF dialog.instance
       THEN /\ running' = FALSE
            /\ socket' = 0
            /\ server_thread' = 0
            /\ conns' = [c \in ConnIds |->
                           IF conns[c].h = "queued" THEN HClose(c, "reset")[c]
                           ELSE conns[c]]
       ELSE UNCHANGED <<running, socket, server_thread, conns>>
    /\ dialog' = [dialog EXCEPT !.server_running = FALSE, !.start_enabled = TRUE,
                                !.stop_enabled = FALSE, !.instance = FALSE,
                                !.status = <<"Status: Not connected">>]
    /\ UNCHANGED <<doc, loops, starts, threads, switches, activeDoc, objects,
                   materials, nextId, clientVars>>

\* _server_loop of an instance the dialog has dropped, or of the present one:
\* `while self.running` (line 93) reads the flag of the thread's own
\* instance, and a dropped instance has been stopped
instance_loop_exit(t) ==
    /\ t \in loops
    /\ t # server_thread \/ ~running
    /\ loops' = loops \ {t}
    /\ UNCHANGED <<running, socket, server_thread, doc, starts, threads,
                   switches, activeDoc, objects, materials, conns, nextId,
                   clientVars, dialog>>

NextDialog ==
    \/ EditPort
    \/ Command_start
    \/ Command_stop
    \/ \E t \in 1..MaxClicks : instance_loop_exit(t)

\* ------------------------------------------------------------- specifications

Init ==
    /\ running = FALSE /\ socket = 0 /\ server_thread = 0 /\ doc = "None"
    /\ loops = {} /\ starts = 0 /\ threads = 0 /\ switches = 0
    /\ activeDoc = "docA"
    /\ objects = [d \in Docs |-> 0] /\ materials = [d \in Docs |-> 0]
    /\ conns = <<>> /\ nextId = 0
    /\ c4d_connection = FALSE /\ sock = 0 /\ cpc = "idle" /\ phase = "cmd"
    /\ call = NoCall /\ chunks = <<>> /\ last = NoOutcome
    /\ history = <<>> /\ added = 0 /\ shown = NotShown
    /\ dialog = NewDialog

HostNext ==
    \/ start
    \/ stop
    \/ \E t \in 1..MaxStarts : server_loop_accept(t)
    \/ \E t \in 1..MaxStarts : server_loop_exit(t)
    \/ \E c \in ConnIds : handle_client_head(c)
    \/ \E c \in ConnIds : handle_client_recv(c)
    \/ \E c \in ConnIds : handle_client_dispatch(c)
    \/ \E c \in ConnIds : handle_client_handler(c)
    \/ \E c \in ConnIds : handle_client_send(c)

NextHost ==
    \/ HostNext
    \/ SwitchDocument
    \/ PeerConnect
    \/ \E c \in ConnIds : PeerSend(c)
    \/ \E c \in ConnIds : PeerClose(c)

SpecHost == Init /\ [][NextHost]_vars

\* accept() has a timeout of 1 s (line 91) and a closed or cleared socket
\* makes it raise: either way an accept thread is back at `while
\* self.running` within a bounded time, so it cannot stay forever without
\* taking the exit the cleared flag offers
SpecHostFair ==
    SpecHost /\ \A t \in 1..MaxStarts : WF_vars(server_loop_exit(t))

\* two callers at once: each connects and writes one Command
RaceDocs ==
    {Command(0, "map", "get_scene_info", NoParams),
     Command(0, "map", "create_object", Params(TRUE, {"object_type", "name"}, "cube"))}

CallerConnect ==
    /\ socket # 0
    /\ Len(conns) < MaxConns
    /\ conns' = Append(conns, NewConn)
    /\ UNCHANGED <<hostVars, nextId, clientVars, dialog>>

CallerSend(c) ==
    /\ conns[c].cend = "open"
    /\ conns[c].h # "closed"
    /\ conns[c].in = <<>>
    /\ conns[c].got = <<>>
    /\ nextId < MaxCmds
    /\ nextId' = nextId + 1
    /\ \E d \in RaceDocs :
         conns' = [conns EXCEPT ![c].in = Encode([d EXCEPT !.id = nextId + 1])]
    /\ UNCHANGED <<hostVars, clientVars, dialog>>

NextRace ==
    \/ HostNext
    \/ SwitchDocument
    \/ CallerConnect
    \/ \E c \in ConnIds : CallerSend(c)

\* the host with two connections at a time
SpecRace == Init /\ [][NextRace]_vars

\* ChatManager.add_message(role, ...) as send_chat_message calls it: what the
\* history is afterwards
history_with(role) ==
    LET appended == Append(history, ChatMessage(role, added + 1))
    IN IF Len(appended) > max_history
       THEN PySliceFrom(appended, 0 - max_history)
       ELSE appended

\* what c4d.send_command("process_chat", ...) can give send_chat_message: an
\* exception (any failure of send_command, a Failure Response included), the
\* result of a Success that has an "error" key, or one that has none
ChatOutcomes ==
    {[kind |-> "error", body |-> <<"Communication error with Cinema 4D: ", "No data received">>],
     [kind |-> "ok", body |-> <<"error", "Chat processing failed">>],
     [kind |-> "ok", body |-> <<"response", "context_info">>]}

\* the tool send_chat_message up to its send_command: get_cinema4d_connection()
\* raises, or the user message is added to the history (lines 566-575)
send_chat_message_begin ==
    /\ cpc = "idle"
    /\ added + 2 <= MaxMsgs
    /\ \E acquired \in BOOLEAN :
         IF acquired
         THEN /\ history' = history_with("user")
              /\ added' = added + 1
              /\ cpc' = "chat_send"
              /\ UNCHANGED last
         ELSE /\ last' = [NoOutcome EXCEPT !.kind = "error",
                            !.body = <<"Could not connect to Cinema 4D. Make sure the Cinema 4D plugin is running.">>]
              /\ cpc' = "chat_done"
              /\ UNCHANGED <<history, added>>
    /\ UNCHANGED <<hostVars, conns, nextId, c4d_connection, sock, phase, call,
                   chunks, shown, dialog>>

\* a send_chat_message that records an answer whatever the result holds
send_chat_message_send_always_adds ==
    /\ cpc = "chat_send"
    /\ \E o \in ChatOutcomes :
         /\ last' = [NoOutcome EXCEPT !.kind = o.kind, !.body = o.body]
         /\ IF o.kind = "ok"
            THEN history' = history_with("assistant") /\ added' = added + 1
            ELSE UNCHANGED <<history, added>>
    /\ cpc' = "chat_done"
    /\ UNCHANGED <<hostVars, conns, nextId, c4d_connection, sock, phase, call,
                   chunks, shown, dialog>>

\* send_chat_message from its send_command on (lines 578-607): an exception
\* and a result with an "error" key return an error text; otherwise the
\* response is added to the history as the assistant's message
send_chat_message_send ==
    /\ cpc = "chat_send"
    /\ \E o \in ChatOutcomes :
         /\ last' = [NoOutcome EXCEPT !.kind = o.kind, !.body = o.body]
         /\ IF o.kind = "ok" /\ o.body[1] # "error"
            THEN history' = history_with("assistant") /\ added' = added + 1
            ELSE UNCHANGED <<history, added>>
    /\ cpc' = "chat_done"
    /\ UNCHANGED <<hostVars, conns, nextId, c4d_connection, sock, phase, call,
                   chunks, shown, dialog>>

\* ---------------------------------------------------- what the tools return
\* the tools whose text begins "Successfully"
StringTools ==
    {"create_object", "modify_object", "delete_object", "create_material",
     "apply_material", "export_scene", "import_file"}

\* the tools that return an Image
ImageTools == {"get_viewport_screenshot", "render_frame"}

\* the other tools that return a text made from send_command's result
PlainTools ==
    {"get_scene_info", "get_object_info", "set_animation_frame",
     "create_keyframe", "execute_python"}

Tools == StringTools \cup ImageTools \cup PlainTools

\* what get_cinema4d_connection() and send_command(...) can give a tool: an
\* exception of either, the result of a Success that is a soft error (an
\* "error" key, as create_object's for an unknown type), another result, or
\* the empty mapping of a Response without "result"
ToolOutcomes ==
    {[kind |-> "error", body |-> <<"Could not connect to Cinema 4D. Make sure the Cinema 4D plugin is running.">>],
     [kind |-> "error", body |-> Wrap("Exception", UnknownCommand("nosuch"))],
     [kind |-> "ok", body |-> <<"error", "Unknown object type: ", "bogus">>],
     [kind |-> "ok", body |-> <<"name", "X", "type", "cube", "success">>],
     [kind |-> "ok", body |-> <<>>]}

\* `"error" in result`
HasErrorKey(result) == Len(result) > 0 /\ result[1] = "error"

\* result["error"]
ErrorOf(result) == Tail(result)

\* the words after "Successfully " in a string tool's return statement
Done(tool) ==
    CASE tool = "create_object" -> <<"created ", "object_type", " named ", "name", ": ">>
      [] tool = "modify_object" -> <<"modified ", "object_name", ": ">>
      [] tool = "delete_object" -> <<"deleted ", "object_name">>
      [] tool = "create_material" -> <<"created material ", "name", ": ">>
      [] tool = "apply_material" -> <<"applied material ", "material_name", " to ", "object_name">>
      [] tool = "export_scene" -> <<"exported scene to ", "filepath">>
      [] OTHER -> <<"imported ", "filepath", ": ">>

\* the string tools whose text ends with json.dumps(result, indent=2)
DumpsResult == {"create_object", "modify_object", "create_material", "import_file"}

\* the words after "Error " in a tool's except clause
Doing(tool) ==
    CASE tool = "create_object" -> "creating object: "
      [] tool = "modify_object" -> "modifying object: "
      [] tool = "delete_object" -> "deleting object: "
      [] tool = "create_material" -> "creating material: "
      [] tool = "apply_material" -> "applying material: "
      [] tool = "export_scene" -> "exporting scene: "
      [] tool = "import_file" -> "importing file: "
      [] tool = "get_scene_info" -> "getting scene info: "
      [] tool = "get_object_info" -> "getting object info: "
      [] tool = "set_animation_frame" -> "setting animation frame: "
      [] tool = "create_keyframe" -> "creating keyframe: "
      [] tool = "execute_python" -> "executing code: "
      [] OTHER -> "sending chat message: "

\* the text an image tool's except clause raises begins with
Failed(tool) ==
    IF tool = "get_viewport_screenshot" THEN "Screenshot failed: " ELSE "Render failed: "

\* the exception an image tool raises when os.path.exists(temp_path) is false
NotCreated(tool) ==
    IF tool = "get_viewport_screenshot"
    THEN "Screenshot file was not created" ELSE "Render file was not created"

Returned(text) == [NoOutcome EXCEPT !.kind = "returned", !.body = text]
Raised(text) == [NoOutcome EXCEPT !.kind = "raised", !.body = text]

\* tools that all look for an "error" key in the result
tool_text_all_inspect(tool, o, exists) ==
    CASE o.kind = "error" /\ tool \in ImageTools -> Raised(<<Failed(tool)>> \o o.body)
      [] o.kind = "error" /\ tool \notin ImageTools ->
           Returned(<<"Error ", Doing(tool)>> \o o.body)
      [] o.kind # "error" /\ HasErrorKey(o.body) /\ tool \in ImageTools ->
           Raised(<<Failed(tool)>> \o ErrorOf(o.body))
      [] o.kind # "error" /\ HasErrorKey(o.body) /\ tool \notin ImageTools ->
           Returned(<<"Error: ">> \o ErrorOf(o.body))
      [] OTHER -> Returned(<<"Successfully ">> \o o.body)

\* what a tool gives its caller once get_cinema4d_connection() and
\* send_command(...) gave o (kind "error": one of them raised); exists is
\* os.path.exists(temp_path) of the image tools.  Lines 229-235, 248-254,
\* 272-284, 303-315, 328-334, 357-369, 381-392, 407-435, 453-483, 498-502,
\* 519-529, 545-550, 584-607, 695-704, 718-727.
tool_text(tool, o, exists) ==
    CASE o.kind = "error" /\ tool \in ImageTools -> Raised(<<Failed(tool)>> \o o.body)
      [] o.kind = "error" /\ tool \notin ImageTools ->
           Returned(<<"Error ", Doing(tool)>> \o o.body)
      [] o.kind # "error" /\ tool \in ImageTools ->
           IF HasErrorKey(o.body) THEN Raised(<<Failed(tool)>> \o ErrorOf(o.body))
           ELSE IF ~exists THEN Raised(<<Failed(tool), NotCreated(tool)>>)
           ELSE Returned(<<"Image">>)
      [] o.kind # "error" /\ tool = "send_chat_message" ->
           IF HasErrorKey(o.body) THEN Returned(<<"Error: ">> \o ErrorOf(o.body))
           ELSE Returned(<<"response">>)
      [] o.kind # "error" /\ tool \in StringTools ->
           Returned(<<"Successfully ">> \o Done(tool)
                    \o (IF tool \in DumpsResult THEN o.body ELSE <<>>))
      [] o.kind # "error" /\ tool \in {"get_scene_info", "get_object_info"} ->
           Returned(o.body)
      [] o.kind # "error" /\ tool = "set_animation_frame" ->
           Returned(<<"Set animation frame to ", "frame">>)
      [] o.kind # "error" /\ tool = "create_keyframe" ->
           Returned(<<"Created keyframe for ", "object_name", "parameter", "frame">>)
      [] OTHER -> Returned(<<"Code executed successfully: ">>)

\* a tool other than send_chat_message up to the return of its send_command:
\* `c4d = get_cinema4d_connection()`, `result = c4d.send_command(...)`
tool_send_command ==
    /\ cpc = "idle"
    /\ \E tool \in Tools, o \in ToolOutcomes :
         /\ call' = [NoCall EXCEPT !.type = tool]
         /\ last' = [NoOutcome EXCEPT !.kind = o.kind, !.body = o.body]
    /\ cpc' = "tool_sent"
    /\ UNCHANGED <<hostVars, conns, nextId, c4d_connection, sock, phase, chunks,
                   chatVars, dialog>>

\* the rest of the tool's body: what it returns or raises
tool_finish ==
    /\ cpc = "tool_sent"
    /\ \E exists \in BOOLEAN : last' = tool_text(call.type, last, exists)
    /\ cpc' = "tool_done"
    /\ UNCHANGED <<hostVars, conns, nextId, c4d_connection, sock, phase, call,
                   chunks, chatVars, dialog>>

\* send_chat_message's return statements (lines 585, 603, 607)
send_chat_message_return ==
    /\ cpc = "chat_done"
    /\ cpc' = "tool_done"
    /\ last' = tool_text("send_chat_message", last, TRUE)
    /\ UNCHANGED <<hostVars, conns, nextId, c4d_connection, sock, phase, call,
                   chunks, chatVars, dialog>>

\* the caller has the tool's text (or its exception)
tool_returned ==
    /\ cpc = "tool_done"
    /\ cpc' = "idle"
    /\ call' = NoCall
    /\ last' = NoOutcome
    /\ UNCHANGED <<hostVars, conns, nextId, c4d_connection, sock, phase,
                   chunks, chatVars, dialog>>

\* The tools run one at a time: a tool function is called on the server's
\* event loop and blocks it until it returns.
NextChat ==
    \/ cpc = "idle" /\ add_message
    \/ cpc = "idle" /\ reset
    \/ cpc = "idle" /\ get_chat_history
    \/ send_chat_message_begin
    \/ send_chat_message_send
    \/ send_chat_message_return
    \/ tool_send_command
    \/ tool_finish
    \/ tool_returned

\* the chat tools alone: they use no connection
SpecChat == Init /\ [][NextChat]_vars

\* the dialog's buttons and the listeners they create
SpecDialog == Init /\ [][NextDialog]_vars

Next ==
    \/ HostNext
    \/ tool_call
    \/ send_command_begin
    \/ send_command_send
    \/ receive_full_response
    \/ get_cinema4d_connection_except
    \/ get_cinema4d_connection_create
    \/ tool_return
    \/ \E c \in ConnIds : socket_finalized(c)

Spec == Init /\ [][Next]_vars

\* ------------------------------------------------------------------- claims
\* the step is one of connection c's handler thread, leaving position h
HandlerStep(c, h) ==
    /\ conns[c].h = h
    /\ conns'[c].h # h

\* the Command connection c's handler holds
Holds(c) == conns[c].cmd.id # 0

IsUnknown(cmd) == cmd.shape = "map" /\ cmd.type \notin Handlers

Raises(cmd) == cmd.shape = "map" /\ cmd.type \in Handlers /\ ~Binds(cmd.type, cmd.params)

\* the k-th Response written on connection c (SpecHost: peers leave them unread)
Written(c, k) == conns[c].out[(k - 1) * NPieces + 1].m

NWritten(c) == Len(conns[c].out) \div NPieces

IsPrefix(s, t) == Len(s) <= Len(t) /\ s = SubSeq(t, 1, Len(s))

\* C1: on every connection on which no send has failed, the Responses
\* written are, in order, the answers to the Commands decoded: each decoded
\* Command has exactly one Response once its handling is over, and at most one
\* Command is unanswered while it is handled.
C1_OneResponsePerCommand ==
    \A c \in ConnIds :
        ~conns[c].sendFailed =>
            /\ IsPrefix(conns[c].answered, conns[c].got)
            /\ Len(conns[c].got) <= Len(conns[c].answered) + 1
            /\ conns[c].h \in {"queued", "head", "recv", "closed"}
                   => conns[c].answered = conns[c].got

\* C3: a Command whose name is not in the dispatch table (a missing name
\* included) never reaches a handler and never ends the handler thread; its
\* Response is the Failure "Unknown command type: <name>".
C3_UnknownCommand ==
    \A c \in ConnIds :
        (Holds(c) /\ IsUnknown(conns[c].cmd)) =>
            /\ conns[c].h \in {"dispatch", "send"}
            /\ conns[c].h = "send" =>
                   conns[c].resp = Response("error",
                                            <<"Unknown command type: ", conns[c].cmd.type>>,
                                            conns[c].cmd.id)

\* C3 witness: on one connection, open still, the Failure of an unknown name
\* was written and after it the Success of a later Command
C3_Witness ==
    \E c \in ConnIds :
        /\ conns[c].h # "closed"
        /\ NWritten(c) = 2
        /\ Written(c, 1).status = "error"
        /\ Written(c, 1).body = <<"Unknown command type: ", "nosuch">>
        /\ Written(c, 2).status = "success"

\* C4: a Command whose handler call raises never ends the handler thread; its
\* Response is the Failure carrying the exception's message.
C4_HandlerRaises ==
    \A c \in ConnIds :
        (Holds(c) /\ Raises(conns[c].cmd)) =>
            /\ conns[c].h \in {"dispatch", "send"}
            /\ conns[c].h = "send" =>
                   conns[c].resp = Response("error",
                                            <<"TypeError: ", conns[c].cmd.type,
                                              "() argument mismatch">>,
                                            conns[c].cmd.id)

\* C4 witness: the Failure of a raising handler was written and the next
\* Command on the same connection was read, dispatched and answered
C4_Witness ==
    \E c \in ConnIds :
        /\ NWritten(c) = 2
        /\ Written(c, 1) = Response("error", <<"TypeError: ", "ping", "() argument mismatch">>, 1)
        /\ Written(c, 2).for = 2
        /\ conns[c].h = "recv"

\* C5: no handler thread is ever ended by an exception raised while a decoded
\* Command is handled.
C5_NoCommandEndsHandler ==
    \A c \in ConnIds : conns[c].why # "error"

\* the step is connection c's dispatch or handler step of a well-formed ping
PingStep(c) ==
    /\ conns[c].cmd.shape = "map"
    /\ conns[c].cmd.type = "ping"
    /\ Binds("ping", conns[c].cmd.params)
    /\ HandlerStep(c, "dispatch") \/ HandlerStep(c, "handler")

PingFrame(c) ==
    /\ objects' = objects
    /\ materials' = materials
    /\ <<running, socket, server_thread>>' = <<running, socket, server_thread>>
    /\ HandlerStep(c, "handler") =>
           conns'[c].resp = Response("success", <<"status", "alive">>, conns[c].cmd.id)

\* C9 as claimed: dispatching ping yields the fixed marker and changes no host
\* state, the session-context reference self.doc included
C9_PingChangesNothing ==
    [][\A c \in ConnIds : PingStep(c) => (PingFrame(c) /\ doc' = doc)]_vars

\* C9 amended: dispatching ping yields Success {"status": "alive"} whatever the
\* state, and changes no scene object, no material and none of running, socket,
\* server_thread
C9_PingFrame ==
    [][\A c \in ConnIds : PingStep(c) => PingFrame(c)]_vars

\* C9 witness: two pings in a row on one connection, both answered by the marker
C9_Witness ==
    \E c \in ConnIds :
        /\ NWritten(c) = 2
        /\ Written(c, 1) = Response("success", <<"status", "alive">>, 1)
        /\ Written(c, 2) = Response("success", <<"status", "alive">>, 2)

\* C10: create_object with a type that type_map does not know (compared in
\* lower case) returns the soft error as a Success and inserts nothing; a
\* Response has status "error" only for an unknown name or a raised exception.
C10_SoftError ==
    [][\A c \in ConnIds :
          LET cmd == conns[c].cmd IN
          /\ (/\ HandlerStep(c, "handler")
              /\ cmd.type = "create_object"
              /\ Lower(cmd.params.object_type) \notin
                     {"cube", "sphere", "cylinder", "cone", "plane", "null",
                      "camera", "light"})
             => /\ conns'[c].resp =
                      Response("success",
                               <<"error", "Unknown object type: ", cmd.params.object_type>>,
                               cmd.id)
                /\ objects' = objects
          /\ (conns'[c].resp # conns[c].resp /\ conns'[c].resp.status = "error")
             => (IsUnknown(cmd) \/ Raises(cmd) \/ cmd.shape # "map")]_vars

\* C10 witness: the soft error of type "bogus" is about to be sent, nothing inserted
C10_Witness ==
    \E c \in ConnIds :
        /\ conns[c].h = "send"
        /\ conns[c].cmd.type = "create_object"
        /\ conns[c].resp.status = "success"
        /\ conns[c].resp.body = <<"error", "Unknown object type: ", "bogus">>
        /\ \A d \in Docs : objects[d] = 0

\* --------------------------------------------------- claims on the listener
\* a step of start(): the only action that counts a call
StartStep == starts' = starts + 1

\* C11: a start() on a running listener changes nothing: running, socket and
\* server_thread keep their values, no accept thread is added, no connection
\* is touched.
C11_StartWhileRunning ==
    [][(StartStep /\ running) =>
          /\ running' /\ socket' = socket /\ server_thread' = server_thread
          /\ loops' = loops /\ threads' = threads
          /\ conns' = conns]_vars

\* C11 witness: the first start() bound socket 1; the second start() found
\* the listener running and left socket 1 and accept thread 1 in place
C11_Witness ==
    /\ starts = 2
    /\ running /\ socket = 1 /\ server_thread = 1
    /\ threads = 1 /\ loops = {1}

\* C12: stop() can always be taken; every stop() leaves running false, the
\* listening socket closed and cleared (no connection is left in its
\* backlog), the accept-thread reference cleared; and a stop() of a listener
\* in that state changes nothing.
C12_StopLeaves ==
    /\ [](ENABLED stop)
    /\ [][stop =>
            /\ ~running' /\ socket' = 0 /\ server_thread' = 0
            /\ \A c \in ConnIds : conns'[c].h # "queued"
            /\ (~running /\ socket = 0 /\ server_thread = 0) => UNCHANGED vars]_vars

\* C12 witness: stop() has acted on a running listener: the fields are
\* cleared while the accept thread it started has not yet ended
C12_Witness ==
    /\ ~running /\ socket = 0 /\ server_thread = 0
    /\ threads = 1 /\ loops = {1}

\* accept threads that have ended
Exited == (1..threads) \ loops

\* C13: once the flag is cleared, and unless a start() sets it again, every
\* accept thread ends; a connection is accepted (its handler thread spawned)
\* only while the flag is set and by a thread that has not ended; and a
\* thread that has ended stays so.
C13_LoopExits ==
    /\ ~running ~> (running \/ loops = {})
    /\ [][/\ \A c \in ConnIds :
               (c <= Len(conns') /\ conns[c].h = "queued" /\ conns'[c].h = "head")
                   => (running /\ socket # 0 /\ loops # {})
          /\ Exited \subseteq (1..threads') \ loops']_vars

\* C13 witness: after a stop() with no start() since, the accept thread has
\* ended, with a connection it had accepted still known to the host
C13_Witness ==
    /\ ~running /\ threads = 1 /\ starts = 1 /\ loops = {}
    /\ \E c \in ConnIds : conns[c].h # "queued" /\ conns[c].why # "reset"

\* C14: a start() whose bind fails (a start() of a stopped listener that
\* starts no accept thread) leaves running false, no listening socket, no
\* accept-thread reference and no new thread; so the next start() binds anew.
C14_BindFails ==
    [][(StartStep /\ ~running /\ threads' = threads) =>
          /\ ~running' /\ socket' = 0 /\ server_thread' = 0
          /\ loops' = loops
          /\ conns' = conns]_vars

\* C14 witness: the first start() failed to bind, and the second start() was
\* not taken for a start of a running listener: it bound socket 2
C14_Witness ==
    /\ starts = 2 /\ threads = 1
    /\ running /\ socket = 2 /\ server_thread = 1

\* ----------------------------------------------------- claims on the client
\* C2: whatever send_command returns or raises from a decoded Response, that
\* Response answers the Command this same call wrote, and every piece it has
\* read so far belongs to that Response: the late Response of a Command
\* abandoned on a timeout is never handed to a later call.
C2_ResponseOfOwnCommand ==
    /\ last.for # 0 => last.for = last.id
    /\ cpc = "sc_recv" => \A i \in 1..Len(chunks) : chunks[i].m.for = call.id

\* C2 witness: the late Response of an abandoned Command lies unread on the
\* connection the client dropped, and a later send_command, on another
\* connection, has returned the Response of its own Command
C2_Witness ==
    \E c \in ConnIds :
        /\ c # sock
        /\ conns[c].out # <<>>
        /\ last.kind = "ok"
        /\ last.conn # c
        /\ last.for = last.id
        /\ conns[c].out[1].m.for < last.for

\* C6: a call that began with the cached socket closed by the host, the
\* listener accepting throughout, ends after exactly one new connection, with
\* the Command written once on it, and its outcome is the outcome of that
\* exchange (the result, when a Response was returned, is the one of this
\* Command): nothing that happened on the dropped socket reaches the caller.
C6_TransparentReconnect ==
    (cpc = "done" /\ call.stale # 0 /\ socket # 0 /\ socket = call.lsock) =>
        /\ call.connects = 1
        /\ call.writes = 1
        /\ call.id # 0
        /\ last.id = call.id
        /\ last.conn \notin {0, call.stale}
        /\ last.conn > call.stale
        /\ last.kind = "ok" => last.for = call.id

\* C6 witness: such a call has returned the result of its Command
C6_Witness ==
    /\ cpc = "done"
    /\ call.stale # 0
    /\ socket # 0 /\ socket = call.lsock
    /\ last.kind = "ok"
    /\ last.for = call.id
    /\ conns[call.stale].h = "closed"

\* C7: when send_command has raised, the client holds no socket by the time
\* the error is with its caller (get_cinema4d_connection for the ping, the
\* tool otherwise); and no send_command writes its Command more than once.
C7_FailureInvalidates ==
    /\ (cpc \in {"done", "ping_failed"} /\ last.kind = "error") => sock = 0
    /\ call.writes <= 1

\* C7 witness: a send_command that wrote its Command once gave up waiting on
\* a connection the host still serves, and holds no socket
C7_Witness ==
    /\ cpc = "done"
    /\ last.kind = "error"
    /\ last.body = Wrap("Exception", <<"No data received">>)
    /\ call.writes = 1
    /\ sock = 0
    /\ conns[last.conn].h # "closed"

\* C8: while no accept loop has ever started, a call that has ended made
\* exactly one connect attempt, no connection exists and no Command was
\* written, the error is the not-connected one, the client holds no socket
\* and no cached connection object.
C8_NotConnected ==
    (cpc = "done" /\ threads = 0) =>
        /\ call.connects = 1
        /\ call.writes = 0
        /\ nextId = 0
        /\ conns = <<>>
        /\ last.kind = "error"
        /\ last.body = <<"Could not connect to Cinema 4D. Make sure the Cinema 4D plugin is running.">>
        /\ sock = 0
        /\ ~c4d_connection

\* C8 witness: a call has ended in the not-connected error before any start()
\* succeeded (one start() failed to bind)
C8_Witness ==
    /\ cpc = "done"
    /\ threads = 0
    /\ starts = 1
    /\ last.kind = "error"
    /\ call.connects = 1

\* C15: whenever send_command has decoded a Response, a Response with status
\* "error" was raised as an error whose text carries the Response's message,
\* and any other Response gave its result as the return value.
C15_ResponseByStatus ==
    last.resp # NoResp =>
        IF last.resp.status = "error"
        THEN /\ last.kind = "error"
             /\ last.body = <<"Communication error with Cinema 4D: ">> \o last.resp.body
        ELSE /\ last.kind = "ok"
             /\ last.body = last.resp.body

\* C15 witness: the Failure of an unknown command name has been raised to the
\* caller with its message
C15_Witness ==
    /\ cpc = "done"
    /\ last.resp.status = "error"
    /\ last.resp.body = UnknownCommand("nosuch")
    /\ last.kind = "error"

\* the explanations a call's error begins with
Explanations ==
    {"Timeout waiting for Cinema 4D response - operation may be too complex",
     "Connection to Cinema 4D lost: ",
     "Invalid response from Cinema 4D: ",
     "Communication error with Cinema 4D: ",
     "Could not connect to Cinema 4D. Make sure the Cinema 4D plugin is running."}

\* C16: a call that has ended gave a result or an error whose text begins
\* with an explanation of what failed; the text of a socket exception (broken
\* pipe, reset, closed, timeout) never stands alone.
C16_ErrorsExplained ==
    cpc = "done" =>
        \/ last.kind = "ok"
        \/ /\ last.kind = "error"
           /\ last.body # <<>>
           /\ last.body[1] \in Explanations

\* C16 witness: a reset of the connection while the call waited for its
\* Response has reached the caller under its explanation
C16_Witness ==
    /\ cpc = "done"
    /\ last.kind = "error"
    /\ last.body = <<"Connection to Cinema 4D lost: ", "Connection reset by peer">>

C18_ChunkedReceive ==
    /\ last.data # <<>> =>
           \E k \in 1..Len(conns[last.conn].wrote) :
               /\ last.data = Encode(conns[last.conn].wrote[k])
               /\ conns[last.conn].wrote[k].for = last.id
    /\ cpc = "sc_recv" =>
           /\ Len(chunks) < NPieces
           /\ chunks # <<>> =>
                  \E k \in 1..Len(conns[sock].wrote) :
                      /\ IsPrefix(chunks, Encode(conns[sock].wrote[k]))
                      /\ conns[sock].wrote[k].for = call.id

\* C18 witness: a Response that arrived in two reads has been returned whole
C18_Witness ==
    /\ cpc = "done"
    /\ call.reads = NPieces
    /\ last.kind = "ok"
    /\ last.data = Encode(last.resp)

\* C19: every connection the client does not reference has its client end
\* closed.
C19_NoOpenUnreferenced ==
    \A c \in ConnIds : c # sock => conns[c].cend = "closed"

\* ------------------------------------------------- claims on the chat store
\* the last n elements of seq, all of it when it has fewer
MostRecent(seq, n) ==
    SubSeq(seq, (IF Len(seq) > n THEN Len(seq) - n ELSE 0) + 1, Len(seq))

\* C20: what get_chat_history(limit) gave is at most limit messages, and
\* they are the most recent ones of the history it was called on, in order
\* (stated for the limits that a number of messages can meet: 0 and above).
C20_AtMostLimit ==
    (shown.called /\ shown.limit >= 0) =>
        /\ Len(shown.messages) <= shown.limit
        /\ shown.messages = MostRecent(shown.of, shown.limit)

\* ------------------------------------------- claims on framing and threads
\* a step of handler c in which its recv returned
RecvStep(c) == conns[c].h = "recv" /\ conns'[c].h # "recv"

\* C21: a recv that returns data leaves the handler reading, with the data
\* added to the buffer and nothing dispatched or written, while the buffer is
\* not a complete document; when the buffer is one document, that document
\* is dispatched as one Command and the buffer is emptied.
C21_HostFraming ==
    [][\A c \in ConnIds :
         (RecvStep(c) /\ conns[c].in # <<>>) =>
            \E n \in 1..Len(conns[c].in) :
               LET buffer == conns[c].buf \o SubSeq(conns[c].in, 1, n)
               IN /\ conns'[c].out = conns[c].out
                  /\ IF Decodes(buffer)
                     THEN /\ conns'[c].h = "dispatch"
                          /\ conns'[c].cmd = Decoded(buffer)
                          /\ conns'[c].got = Append(conns[c].got, Decoded(buffer).id)
                          /\ conns'[c].buf = <<>>
                     ELSE /\ conns'[c].h = "head"
                          /\ conns'[c].buf = buffer
                          /\ conns'[c].got = conns[c].got
                          /\ conns'[c].cmd = conns[c].cmd]_vars

\* C22: the boundary of a message is the end of the smallest beginning of the
\* buffer that is a document: the buffer a handler keeps never begins with a
\* complete document (that document has been taken off and dispatched).
C22_SmallestPrefix ==
    \A c \in ConnIds :
        \A k \in 1..Len(conns[c].buf) : ~Decodes(SubSeq(conns[c].buf, 1, k))

\* C23: a recv that returns end-of-stream, and equally a send that fails
\* because the peer is gone, ends the handler with its connection closed, in
\* that step (it reads nothing further); the step changes neither the
\* listener nor any other connection.
C23_EndsOnEofAndSendFailure ==
    [][\A c \in ConnIds :
         LET eof == /\ RecvStep(c)
                    /\ conns[c].in = <<>>
                    /\ conns[c].cend = "closed"
             sendFails == HandlerStep(c, "send") /\ conns'[c].sendFailed
                            /\ ~conns[c].sendFailed
         IN (eof \/ sendFails) =>
               /\ conns'[c].h = "closed"
               /\ UNCHANGED <<running, socket, server_thread, loops>>
               /\ \A d \in ConnIds \ {c} : conns'[d] = conns[d]]_vars

\* ------------------------------------------- claims on the client's receive
\* the message of the error raised when the bytes received are no document
Incomplete == Wrap("Exception", <<"Incomplete JSON response received">>)

\* C24: what the client's receive returns is always exactly one decodable
\* document; when receiving ends (timeout, end-of-stream, reset) after some
\* bytes that do not decode, the call ends with an error and without data,
\* and a timeout or end-of-stream then gives the incomplete-response error.
C24_NoPartialData ==
    [][/\ last'.data # <<>> => Decodes(last'.data)
       /\ (cpc = "sc_recv" /\ cpc' # "sc_recv" /\ chunks # <<>> /\ conns' = conns) =>
             /\ last'.kind = "error"
             /\ last'.data = <<>>
             /\ last'.resp = NoResp
             /\ last'.body \in {Incomplete,
                                 Wrap("ConnectionError", <<"Connection reset by peer">>)}]_vars

\* C24 witness: a call has ended with the incomplete-response error after
\* one read that returned the first part of a Response
C24_Witness ==
    /\ cpc = "done"
    /\ call.reads = 1
    /\ last.kind = "error"
    /\ last.body = Incomplete
    /\ last.data = <<>>

\* the receive timeout fires in this step with no byte received: the call
\* leaves its receive although nothing was read and the stream has not ended
TimeoutNoBytes ==
    /\ cpc = "sc_recv"
    /\ cpc' # "sc_recv"
    /\ chunks = <<>>
    /\ conns' = conns
    /\ conns[sock].out = <<>> => conns[sock].h # "closed"

\* C25: when the receive timeout fires with no byte received, the call ends
\* with the timeout error and the Connection holds no socket any more.
C25_TimeoutError ==
    [][TimeoutNoBytes =>
         /\ last'.kind = "error"
         /\ last'.body = Wrap("socket.timeout", <<>>)
         /\ sock' = 0]_vars

\* ------------------------------------------------------- claims on acquire
\* the ping of get_cinema4d_connection has failed and the function goes on:
\* the stale connection is closed, the reference to it and the cached object
\* are gone, and a new connection is created next
AcquireDiscards ==
    (cpc = "ping_failed" /\ cpc' # "ping_failed") =>
        /\ cpc' = "create"
        /\ ~c4d_connection'
        /\ sock' = 0
        /\ last.conn # 0 => conns'[last.conn].cend = "closed"

\* creating the connection fails: nothing stays cached, an error is raised
AcquireCreateFails ==
    (cpc = "create" /\ cpc' = "done") =>
        /\ ~c4d_connection'
        /\ sock' = 0
        /\ last'.kind = "error"

\* get_cinema4d_connection returns (the caller's send_command begins): the
\* connection has just been made, or has just answered the ping
AcquireReturns ==
    (cpc # "sc_begin" /\ cpc' = "sc_begin" /\ phase' = "cmd") =>
        /\ c4d_connection'
        /\ sock' # 0
        /\ \/ cpc = "create" /\ sock = 0 /\ conns'[sock'].got = <<>>
           \/ /\ cpc = "sc_recv" /\ phase = "ping" /\ sock' = sock
              /\ last'.kind = "ok" /\ last'.body = ping /\ last'.conn = sock

\* C26: get_cinema4d_connection returns a cached connection only after a
\* ping on it succeeded; after a failed ping the stale connection is closed,
\* its reference cleared and a new connection created; when creating fails
\* nothing stays cached and an error is raised.
C26_Acquire == [][AcquireDiscards /\ AcquireCreateFails /\ AcquireReturns]_vars

\* ------------------------------------------------ claims on handler threads
\* handler c is between decoding a Command and having dealt with its Response
Executing(c) == conns[c].h \in {"dispatch", "handler", "send"}

\* C27: on one connection a Command is decoded only by the handler's recv
\* and only while the handler holds no Command and no Response; while a
\* Command is executing the handler takes nothing from the connection.
C27_OneCommandAtATime ==
    [][\A c \in ConnIds :
         /\ conns'[c].got # conns[c].got =>
               /\ conns[c].h = "recv"
               /\ ~Holds(c)
               /\ conns[c].resp = NoResp
               /\ Len(conns'[c].got) = Len(conns[c].got) + 1
         /\ (Executing(c) /\ conns'[c].h # "closed") =>
               /\ IsPrefix(conns[c].in, conns'[c].in)
               /\ conns'[c].buf = conns[c].buf
         /\ Executing(c) <=> (Holds(c) /\ conns[c].h # "closed")]_vars

\* C27 witness: the second Command of a connection is executing after the
\* Response of the first has been written
C27_Witness ==
    \E c \in ConnIds :
        /\ conns[c].h = "handler"
        /\ Len(conns[c].got) = 2
        /\ conns[c].answered = <<conns[c].got[1]>>
        /\ conns[c].cmd.id = conns[c].got[2]

\* C28: a connection waiting to be accepted can be accepted whenever the
\* listener runs, whatever the handlers of other connections are doing, and
\* its handler can read its Commands and write their Responses whatever the
\* other handlers are doing.
C28_AcceptsWhileBusy ==
    /\ (running /\ socket # 0 /\ loops # {}
          /\ \E c \in ConnIds : conns[c].h = "queued")
         => ENABLED (\E t \in 1..MaxStarts : server_loop_accept(t))
    /\ \A c \in ConnIds :
         /\ conns[c].h = "head" => ENABLED handle_client_head(c)
         /\ (conns[c].h = "recv" /\ conns[c].in # <<>>) => ENABLED handle_client_recv(c)
         /\ conns[c].h = "send" => ENABLED handle_client_send(c)

\* C28 witness: a connection accepted while another handler was alive has
\* had its Command answered, and that other handler is still executing its
\* first Command
C28_Witness ==
    \E c, d \in ConnIds :
        /\ c # d
        /\ conns[c].h = "handler"
        /\ Len(conns[c].got) = 1
        /\ conns[d].busy
        /\ conns[d].answered # <<>>
        /\ conns[d].out # <<>>

NeverDocument(buf) ==
    /\ buf # <<>>
    /\ ~(WellFormed(buf[1].m) /\ IsPrefix(buf, Encode(buf[1].m)))

\* what handler c may have in its buffer after a recv that returns data
Buffers(c) ==
    {conns[c].buf \o SubSeq(conns[c].in, 1, n) : n \in 1..Len(conns[c].in)}

\* handler c holds, or is taking in this step, bytes that can never become a
\* complete document
Stalls(c) ==
    /\ conns[c].h # "closed"
    /\ \/ NeverDocument(conns[c].buf)
       \/ /\ RecvStep(c)
          /\ conns[c].in # <<>>
          /\ \A b \in Buffers(c) : NeverDocument(b)

\* in this step handler c writes no Response, dispatches no Command, and, if
\* it goes on, goes on with bytes that can never become a document
KeepsWaiting(c) ==
    /\ conns'[c].out = conns[c].out
    /\ conns'[c].got = conns[c].got
    /\ conns'[c].h \in {"head", "recv", "closed"}
    /\ conns'[c].h # "closed" => NeverDocument(conns'[c].buf)

C31_HistoryTrimmed ==
    /\ [](Len(history) <= max_history)
    /\ [][/\ added' # added =>
              /\ history' # <<>>
              /\ history'[Len(history')].content = added'
              /\ history' = MostRecent(Append(history, history'[Len(history')]),
                                       max_history)
          /\ (added' = added /\ history' # history) => history' = <<>>]_vars

\* C31 witness: the oldest message has been trimmed away
C31_Witness ==
    /\ Len(history) = max_history
    /\ added = max_history + 1
    /\ \A i \in 1..max_history : history[i].content = i + 1

\* ------------------------------------------ claims on the client's errors
\* C32: a call that ends with a decoded Failure leaves the Connection
\* without a socket and the socket it ran on open (not closed), and the
\* connection the client holds between calls and writes a Command on has
\* never delivered a Failure.
C32_FailureDropsConnection ==
    /\ [][(cpc = "sc_recv" /\ cpc' # "sc_recv" /\ last'.resp.status = "error") =>
             /\ last'.kind = "error"
             /\ sock' = 0
             /\ conns'[sock].cend = "open"]_vars
    /\ [](\A c \in ConnIds :
            (c = sock /\ cpc \in {"idle", "sc_begin", "sc_send"}) =>
                \A k \in 1..Len(conns[c].wrote) : conns[c].wrote[k].status # "error")

\* C32 witness: after a Failure came over the first connection, the client's
\* next Command has been read by the host on a second connection
C32_Witness ==
    /\ Len(conns) = 2
    /\ sock = 2
    /\ conns[1].wrote # <<>>
    /\ conns[1].wrote[1].status = "error"
    /\ conns[1].answered = <<1>>
    /\ conns[1].h # "closed"
    /\ conns[2].got = <<2>>

\* ------------------------------------- claims on the ping and on stopping
\* the elements of a sequence
Range(seq) == {seq[i] : i \in 1..Len(seq)}

\* get_cinema4d_connection's ping has succeeded on the connection the client
\* holds, and the caller's Command has been written on it
AfterPing ==
    /\ cpc = "sc_recv"
    /\ phase = "cmd"
    /\ sock # 0
    /\ last.kind = "ok"
    /\ last.body = ping
    /\ last.conn = sock

\* C33 as stated: the handler that answered the ping does not end without
\* having answered the Command that follows the ping.
C33_PingThenCommand ==
    (AfterPing /\ conns[sock].h = "closed") => call.id \in Range(conns[sock].answered)

\* C33: the handler that answered the ping ends without having answered the
\* Command that follows only if it found the listener stopped at its loop
\* test, and then it has not read the Command, or if it ended while handling
\* that Command; a handler at its loop test leaves exactly when the listener
\* is stopped.
C33_PingThenCommandUnlessStopped ==
    /\ []((AfterPing /\ conns[sock].h = "closed"
            /\ call.id \notin Range(conns[sock].answered)) =>
             \/ conns[sock].why = "stopped" /\ call.id \notin Range(conns[sock].got)
             \/ conns[sock].why = "error" /\ conns[sock].cmd.id = call.id)
    /\ [][\A c \in ConnIds :
             HandlerStep(c, "head") =>
                IF running THEN conns'[c].h = "recv"
                           ELSE conns'[c].h = "closed" /\ conns'[c].why = "stopped"]_vars

\* C33 witness: the listener was stopped after the ping was answered; the
\* handler has left, and the Command that followed the ping was never read
C33_Witness ==
    /\ AfterPing
    /\ ~running
    /\ conns[sock].h = "closed"
    /\ conns[sock].why = "stopped"
    /\ last.id \in Range(conns[sock].answered)
    /\ call.id \notin Range(conns[sock].got)

\* stop() has cleared the running flag since the handler of c was started,
\* and the handler is alive
StoppedSince(c) ==
    /\ conns[c].h \notin {"queued", "closed"}
    /\ ~running \/ conns[c].gen < threads

\* C34: a handler that is alive after stop() has cleared the running flag
\* leaves its loop and closes its connection at its next loop test, that is
\* after the Command it is executing or after the one chunk it receives next.
C34_LeavesAfterStop ==
    [][\A c \in ConnIds :
         (StoppedSince(c) /\ HandlerStep(c, "head")) =>
             /\ conns'[c].h = "closed"
             /\ conns'[c].why = "stopped"]_vars

\* C35: at most one accept thread is alive while the listener is running, so
\* that no thread of an earlier start() accepts on the socket of a later one.
C35_OneAcceptThread ==
    running => Cardinality(loops) <= 1

\* ------------------------------------------------ claims on send_chat_message
\* C36: send_chat_message adds nothing to the history when acquiring the
\* connection fails; otherwise it adds the user message before the Command
\* is sent, and the assistant message only when the result came back without
\* an "error" key; after an exception or a soft error the history is left
\* ending with the user message.
C36_ChatHistory ==
    [][/\ (cpc = "idle" /\ cpc' = "chat_done") =>
             history' = history /\ last'.kind = "error"
       /\ (cpc = "idle" /\ cpc' = "chat_send") =>
             /\ history' = MostRecent(Append(history, ChatMessage("user", added')),
                                      max_history)
       /\ (cpc = "chat_send" /\ cpc' = "chat_done") =>
             /\ history[Len(history)].role = "user"
             /\ IF last'.kind = "ok" /\ last'.body[1] # "error"
                THEN history' = MostRecent(Append(history,
                                              ChatMessage("assistant", added')),
                                          max_history)
                ELSE history' = history]_vars

\* C36 witness: a chat call has ended on a soft error after an answered one:
\* the history ends with the unanswered user message
C36_Witness ==
    /\ cpc = "chat_done"
    /\ last.kind = "ok"
    /\ last.body[1] = "error"
    /\ Len(history) = 3
    /\ history[1].role = "user"
    /\ history[2].role = "assistant"
    /\ history[3].role = "user"

\* ------------------------------------------------ claims on the tools' texts
\* C37: when send_command returned without raising, a string tool returns its
\* "Successfully ..." text, a soft-error result {"error": ...} included; for
\* such a result get_viewport_screenshot and render_frame raise the error and
\* send_chat_message returns it as "Error: ...", and no other tool reports it
\* as an error.
C37_SoftErrorIsSuccess ==
    [][/\ (cpc = "tool_sent" /\ cpc' = "tool_done" /\ last.kind = "ok") =>
             /\ call.type \in StringTools =>
                   /\ last'.kind = "returned"
                   /\ last'.body[1] = "Successfully "
             /\ (call.type \in ImageTools /\ HasErrorKey(last.body)) =>
                   /\ last'.kind = "raised"
                   /\ last'.body = <<Failed(call.type)>> \o ErrorOf(last.body)
             /\ call.type \in PlainTools =>
                   /\ last'.kind = "returned"
                   /\ last'.body = <<>> \/ last'.body[1] \notin {"Error ", "Error: "}
       /\ (cpc = "chat_done" /\ cpc' = "tool_done" /\ last.kind = "ok"
           /\ HasErrorKey(last.body)) =>
             /\ last'.kind = "returned"
             /\ last'.body = <<"Error: ">> \o ErrorOf(last.body)]_vars

\* C37 witness: create_object has returned "Successfully created ..." with the
\* soft error of an unknown object type in it
C37_Witness ==
    /\ cpc = "tool_done"
    /\ call.type = "create_object"
    /\ last.kind = "returned"
    /\ last.body = <<"Successfully ">> \o Done("create_object")
                   \o <<"error", "Unknown object type: ", "bogus">>

\* ------------------------------------------ claims on the host's decoding
\* C38: a recv leaves the handler reading only when the buffer is text that
\* is not yet a document; when the buffer does not decode as UTF-8, as when a
\* chunk boundary falls inside a multi-byte character of a Command, the
\* handler closes the connection in that step: the Command is not dispatched
\* and no Response is written.
C38_SplitCharacterCloses ==
    [][\A c \in ConnIds :
         (RecvStep(c) /\ conns[c].in # <<>>) =>
            \E n \in 1..Len(conns[c].in) :
               LET buffer == conns[c].buf \o SubSeq(conns[c].in, 1, n)
               IN IF SplitChar(buffer) \/ ~Utf8Decodes(buffer)
                  THEN /\ conns'[c].h = "closed"
                       /\ conns'[c].why = "error"
                       /\ conns'[c].split = SplitChar(buffer)
                       /\ conns'[c].got = conns[c].got
                       /\ conns'[c].answered = conns[c].answered
                       /\ conns'[c].wrote = conns[c].wrote
                       /\ conns'[c].out = conns[c].out
                  ELSE /\ conns'[c].h \in {"head", "dispatch"}
                       /\ conns'[c].h = "head" <=> ~Decodes(buffer)
                       /\ conns'[c].h = "head" => conns'[c].buf = buffer
                       /\ conns'[c].h = "dispatch" => conns'[c].cmd = Decoded(buffer)]_vars

\* C38 witness: the handler has ended on a buffer that stops inside a
\* multi-byte character of the first Command sent to it: nothing was
\* dispatched or written, and the peer has not closed
C38_Witness ==
    \E c \in ConnIds :
        /\ conns[c].h = "closed"
        /\ conns[c].why = "error"
        /\ conns[c].split
        /\ conns[c].got = <<>>
        /\ conns[c].wrote = <<>>
        /\ conns[c].out = <<>>
        /\ conns[c].cend = "open"
        /\ running

\* ------------------------------------------------------ claims on the dialog
\* C39: the dialog shows "Connected" (server_running set, Stop enabled) only
\* while the listener it created is running.
C39_ConnectedOnlyWhileRunning ==
    (dialog.server_running \/ dialog.stop_enabled) => (dialog.instance /\ running)

====
